---- MODULE Spec2Model ----
(***************************************************************************)
(* Model of generate.py: the Mapbase VScript documentation generator.      *)
(*                                                                         *)
(* A Python str is a sequence of one-character strings, so that splitting, *)
(* regular-expression matching, concatenation and slicing are computed on  *)
(* characters.  The only character that cannot be written as a TLA+ string *)
(* is the backtick; it is the one-element token "BACKTICK".                *)
(***************************************************************************)
EXTENDS Integers, Sequences, FiniteSets, TLC

VARIABLES
    pc,                    \* the statement the interpreter is at
    exc,                   \* the exception that ended the run ("" if none)
    \* module level (lines 39-44, 162-181)
    dump, version, server_text, client_text, server_docs, client_docs,
    dirs, files,           \* the file system: directories, path -> content
    runs, prev_files, prev_pc,  \* number of the run, and how the previous run ended
    \* gather_info / generate_docs (lines 47-82, 109-154)
    raw, blocks, bi, info, ti, return_documentation, return_list,
    \* Instance.__init__ (lines 13-28)
    text_info, lines, li, name, value, self

vars == <<pc, exc, dump, version, server_text, client_text, server_docs,
          client_docs, dirs, files, runs, prev_files, prev_pc,
          raw, blocks, bi, info, ti, return_documentation, return_list,
          text_info, lines, li, name, value, self>>

moduleVars == <<dump, version, server_text, client_text, server_docs,
                client_docs, dirs, files, runs, prev_files, prev_pc>>
gatherVars == <<raw, blocks, bi, info, ti, return_documentation, return_list>>
instanceVars == <<text_info, lines, li, name, value, self>>

----------------------------------------------------------------------------
(* Bounds *)
MaxLineLen == 3     \* length of the generated lines of a block
MaxLines == 2       \* lines of a block given to Instance
MaxBlocks == 3      \* record blocks of a section given to gather_info
MaxDumpBlocks == 2  \* record blocks of the server section of a dump
MaxRuns == 2        \* runs of the generator on the same input file

----------------------------------------------------------------------------
(* Evaluation *)

\* The element of a one-element set.  An operator binds the values it uses
\* more than once as x \in {e}, which evaluates e once, where a LET or an
\* argument is evaluated again at each use.
Only(S) == CHOOSE x \in S : TRUE

----------------------------------------------------------------------------
(* str operations *)

Min(S) == CHOOSE m \in S : \A n \in S : m <= n

\* The index of the first occurrence of sep in s at or after i, 0 if none.
Find(s, sep, i) ==
    LET at == {j \in i..(Len(s) - Len(sep) + 1) :
                  SubSeq(s, j, j + Len(sep) - 1) = sep}
    IN  IF at = {} THEN 0 ELSE Min(at)

RECURSIVE Split(_, _)
\* str.split(sep)
Split(str, sep) ==
    Only({IF j = 0 THEN <<s>>
          ELSE <<SubSeq(s, 1, j - 1)>> \o Split(SubSeq(s, j + Len(sep), Len(s)), sep) :
          s \in {str}, j \in {Find(str, sep, 1)}})

\* str.split(sep, 1)
Split1(str, sep) ==
    Only({IF j = 0 THEN <<s>>
          ELSE <<SubSeq(s, 1, j - 1), SubSeq(s, j + Len(sep), Len(s))>> :
          s \in {str}, j \in {Find(str, sep, 1)}})

\* str.splitlines(): the line boundary of the modelled inputs is "\n"; a
\* final line break opens no further line.
SplitLines(str) ==
    Only({IF parts[Len(parts)] = <<>> THEN SubSeq(parts, 1, Len(parts) - 1)
          ELSE parts :
          parts \in {Split(str, <<"\n">>)}})

RECURSIVE Join(_, _)
\* sep.join(list)
Join(list, sep) ==
    Only({IF parts = <<>> THEN <<>>
          ELSE IF Len(parts) = 1 THEN parts[1]
          ELSE parts[1] \o sep \o Join(Tail(parts), sep) :
          parts \in {list}})

\* The characters \s matches among the characters of the modelled inputs.
Whitespace == {" ", "\t"}

\* What is left of s after the greedy \s* has consumed its prefix.
LStrip(s) ==
    LET rest == {i \in 1..Len(s) : s[i] \notin Whitespace}
    IN  IF rest = {} THEN <<>> ELSE SubSeq(s, Min(rest), Len(s))

SepLen == 37

\* The length of the match of \n?={37}\n? at index p of s, 0 if none.
SeparatorAt(s, p) ==
    LET a == IF p <= Len(s) /\ s[p] = "\n" THEN 1 ELSE 0
        eqs == p + a + SepLen - 1 <= Len(s)
               /\ \A k \in (p + a)..(p + a + SepLen - 1) : s[k] = "="
        b == IF eqs /\ p + a + SepLen <= Len(s) /\ s[p + a + SepLen] = "\n"
             THEN 1 ELSE 0
    IN  IF eqs THEN a + SepLen + b ELSE 0

RECURSIVE StripSeparators(_)
\* re.sub(r"\n?={37}\n?", "", str): the leftmost match is cut out, and the
\* search goes on after it.
StripSeparators(str) ==
    Only({LET at == {p \in 1..Len(s) : SeparatorAt(s, p) > 0}
          IN  IF at = {} THEN s
              ELSE Only({SubSeq(s, 1, p - 1)
                         \o StripSeparators(SubSeq(s, p + SeparatorAt(s, p), Len(s))) :
                         p \in {Min(at)}}) :
          s \in {str}})

\* re.findall(r"([^:]+):\s*(.*)", str): the leftmost match starts at the
\* first character that is not a colon and has a colon after it; [^:]+ runs
\* up to that colon, \s* takes the whitespace after it and (.*) the rest.
\* The result is <<>> without a match and <<match>> with one.
LeftmostMatch(str) ==
    Only({LET starts == {p \in 1..Len(s) :
                            s[p] # ":" /\ \E q \in (p + 1)..Len(s) : s[q] = ":"}
          IN  IF starts = {} THEN <<>>
              ELSE Only({<<[name |-> SubSeq(s, p, q - 1),
                            value |-> LStrip(SubSeq(s, q + 1, Len(s)))]>> :
                         p \in {Min(starts)},
                         q \in {Min({k \in 1..Len(s) : k > Min(starts) /\ s[k] = ":"})}}) :
          s \in {str}})

\* The pattern of line 15 with the colon optional: a line without a colon
\* is a name with an empty value.
findallColonOptional(str) ==
    Only({IF m # <<>> \/ s = <<>> \/ ":" \in {s[i] : i \in DOMAIN s} THEN m
          ELSE <<[name |-> s, value |-> <<>>]>> :
          s \in {str}, m \in {LeftmostMatch(str)}})

\* re.findall(r"([^:]+):\s*(.*)", str), cut to the element that [0] reads
findall(str) == LeftmostMatch(str)

----------------------------------------------------------------------------
(* class Instance (lines 6-28) *)

tType == <<"T","y","p","e">>
tName == <<"N","a","m","e">>
tDescription == <<"D","e","s","c","r","i","p","t","i","o","n">>
tValue == <<"V","a","l","u","e">>
tSignature == <<"S","i","g","n","a","t","u","r","e">>
tEnum == <<"E","n","u","m">>
tConstant == <<"C","o","n","s","t","a","n","t">>
tClass == <<"C","l","a","s","s">>
tFunction == <<"F","u","n","c","t","i","o","n">>
tMember == <<"M","e","m","b","e","r">>
tHook == <<"H","o","o","k">>

\* An Instance object: attrs are the str attributes set from the lines of
\* its block, kids the lists it is constructed with, id the identity of the
\* object (the position of its block in the section, 0 outside gather_info).
NewInstance == [attrs |-> <<>>, kids |-> <<>>, id |-> 0]

hasattr(obj, k) == k \in DOMAIN obj.attrs

\* setattr(obj, k, v)
setattr(obj, k, v) ==
    [obj EXCEPT !.attrs = [x \in (DOMAIN obj.attrs) \cup {k} |->
                              IF x = k THEN v ELSE obj.attrs[x]]]

\* Lines 16-26: the body of the loop, for one parsed line.
InstanceSetLine(object, n, v) ==
    Only({IF ~hasattr(obj, tType)
          THEN [attrs |-> (tType :> n) @@ (tName :> v),
                kids |-> IF n = tEnum THEN [Values |-> <<>>]
                         ELSE IF n = tClass
                              THEN [Functions |-> <<>>, Members |-> <<>>, Hooks |-> <<>>]
                              ELSE <<>>,
                id |-> obj.id]
          ELSE setattr(obj, n, v) :
          obj \in {object}})

\* Lines 27-28.
InstanceDefaults(object) ==
    Only({IF ~hasattr(obj, tDescription) THEN setattr(obj, tDescription, <<>>) ELSE obj :
          obj \in {object}})

RECURSIVE InstanceLines(_, _)
\* Lines 14-26 over the lines, from the object: the object, or the
\* IndexError of a line that findall does not match.
InstanceLines(object, list) ==
    Only({IF ls = <<>> THEN [exc |-> "", val |-> obj]
          ELSE Only({IF m = <<>> THEN [exc |-> "IndexError", val |-> obj]
                     ELSE InstanceLines(InstanceSetLine(obj, m[1].name, m[1].value),
                                        Tail(ls)) :
                     m \in {findall(Head(ls))}}) :
          obj \in {object}, ls \in {list}})

\* Instance(text_info)
Instance(t) ==
    Only({IF r.exc # "" THEN r ELSE [exc |-> "", val |-> InstanceDefaults(r.val)] :
          r \in {InstanceLines(NewInstance, SplitLines(t))}})

----------------------------------------------------------------------------
(* dict: an insertion-ordered sequence of [key, val] entries *)

DictKeys(d) == {d[i].key : i \in DOMAIN d}

DictGet(d, k) == d[CHOOSE i \in DOMAIN d : d[i].key = k].val

\* dict.values()
DictValues(d) == [i \in DOMAIN d |-> d[i].val]

\* d[k] = v: an existing key keeps its position
DictSet(d, k, v) ==
    IF k \in DictKeys(d)
    THEN [i \in DOMAIN d |-> IF d[i].key = k THEN [key |-> k, val |-> v] ELSE d[i]]
    ELSE Append(d, [key |-> k, val |-> v])

\* inf[type][k].<list>.append(x), or the AttributeError of an object
\* without the list
AppendKid(inf, type, k, list, x) ==
    IF list \notin DOMAIN DictGet(inf[type], k).kids
    THEN [exc |-> "AttributeError", val |-> inf]
    ELSE [exc |-> "",
          val |-> [inf EXCEPT ![type] =
                      [i \in DOMAIN @ |->
                          IF @[i].key = k
                          THEN [@[i] EXCEPT !.val.kids[list] = Append(@, x)]
                          ELSE @[i]]]]

----------------------------------------------------------------------------
(* gather_info (lines 47-82) *)

\* Lines 31-37.
pretty_names ==
    (tEnum :> <<"E","n","u","m","s">>) @@ (tConstant :> <<"C","o","n","s","t","a","n","t","s">>) @@ (tClass :> <<"C","l","a","s","s","e","s">>)
    @@ (tFunction :> <<"G","l","o","b","a","l"," ","F","u","n","c","t","i","o","n","s">>) @@ (tHook :> <<"G","l","o","b","a","l"," ","H","o","o","k","s">>)

\* Lines 48-54: the keys of info, in insertion order.
InfoTypes == <<tEnum, tConstant, tClass, tFunction, tHook>>

EmptyInfo == [t \in {InfoTypes[i] : i \in DOMAIN InfoTypes} |-> <<>>]

\* Line 61 with the separator of line 66.
enum_const_colons(n) == Split(n, <<":",":">>)[1]

\* Line 61: inst.Name.split(".")[0]
enum_const(n) == Split(n, <<".">>)[1]

\* Line 66: inst.Name.split("::")[0]
class_func(n) == Split(n, <<":",":">>)[1]

\* Line 71: inst.Name.split(".")[0]
class_member(n) == Split(n, <<".">>)[1]

\* Line 76: inst.Name.split(" -> ")[0]
class_hook(n) == Split(n, <<" ","-",">"," ">>)[1]

\* Lines 59-63: the first if statement.
ClassifyConstant(inf, inst) ==
    IF inst.attrs[tType] = tConstant
       /\ enum_const(inst.attrs[tName]) \in DictKeys(inf[tEnum])
    THEN AppendKid(inf, tEnum, enum_const(inst.attrs[tName]), "Values", inst)
    ELSE [exc |-> "", val |-> inf]

\* Lines 64-80 with a class's Function also reaching the else branch.
ClassifyRestFunctionFiledToo(inf, inst) ==
    IF inst.attrs[tType] = tFunction
       /\ class_func(inst.attrs[tName]) \in DictKeys(inf[tClass])
    THEN Only({[exc |-> r.exc,
                val |-> [r.val EXCEPT ![tFunction] = DictSet(@, inst.attrs[tName], inst)]] :
               r \in {AppendKid(inf, tClass, class_func(inst.attrs[tName]), "Functions", inst)}})
    ELSE IF inst.attrs[tType] = tMember
            /\ class_member(inst.attrs[tName]) \in DictKeys(inf[tClass])
    THEN AppendKid(inf, tClass, class_member(inst.attrs[tName]), "Members", inst)
    ELSE IF inst.attrs[tType] = tHook
            /\ class_hook(inst.attrs[tName]) \in DictKeys(inf[tClass])
    THEN AppendKid(inf, tClass, class_hook(inst.attrs[tName]), "Hooks", inst)
    ELSE IF inst.attrs[tType] \notin DOMAIN inf
    THEN [exc |-> "KeyError", val |-> inf]
    ELSE [exc |-> "",
          val |-> [inf EXCEPT ![inst.attrs[tType]] = DictSet(@, inst.attrs[tName], inst)]]

\* Lines 64-80: the if / elif / elif / else chain.  info has no key
\* "Member", nor a key for any other first word of a block.
ClassifyRest(inf, inst) ==
    IF inst.attrs[tType] = tFunction
       /\ class_func(inst.attrs[tName]) \in DictKeys(inf[tClass])
    THEN AppendKid(inf, tClass, class_func(inst.attrs[tName]), "Functions", inst)
    ELSE IF inst.attrs[tType] = tMember
            /\ class_member(inst.attrs[tName]) \in DictKeys(inf[tClass])
    THEN AppendKid(inf, tClass, class_member(inst.attrs[tName]), "Members", inst)
    ELSE IF inst.attrs[tType] = tHook
            /\ class_hook(inst.attrs[tName]) \in DictKeys(inf[tClass])
    THEN AppendKid(inf, tClass, class_hook(inst.attrs[tName]), "Hooks", inst)
    ELSE IF inst.attrs[tType] \notin DOMAIN inf
    THEN [exc |-> "KeyError", val |-> inf]
    ELSE [exc |-> "",
          val |-> [inf EXCEPT ![inst.attrs[tType]] = DictSet(@, inst.attrs[tName], inst)]]

\* Lines 56-57: the object made from the i-th block of the section.
BlockInstance(block, i) ==
    Only({[exc |-> r.exc, val |-> [r.val EXCEPT !.id = i]] :
          r \in {Instance(StripSeparators(block))}})

\* Lines 59-80 for the object of a block.  A block without lines makes an
\* object without Type, and inst.Type raises.
Classify(information, r) ==
    Only({IF r.exc # "" THEN [exc |-> r.exc, val |-> inf]
          ELSE IF ~hasattr(r.val, tType) THEN [exc |-> "AttributeError", val |-> inf]
          ELSE Only({IF c.exc # "" THEN c ELSE ClassifyRest(c.val, r.val) :
                     c \in {ClassifyConstant(inf, r.val)}}) :
          inf \in {information}})

\* Lines 56-80: the body of the loop for the i-th block.
GatherBlock(inf, block, i) ==
    Only({Classify(inf, r) : r \in {BlockInstance(block, i)}})

RECURSIVE GatherBlocks(_, _, _)
GatherBlocks(information, bs, index) ==
    Only({IF i > Len(bs) THEN [exc |-> "", val |-> inf]
          ELSE Only({IF r.exc # "" THEN r ELSE GatherBlocks(r.val, bs, i + 1) :
                     r \in {GatherBlock(inf, bs[i], i)}}) :
          inf \in {information}, i \in {index}})

\* gather_info(raw)
gather_info(r) ==
    Only({GatherBlocks(EmptyInfo, bs, 1) : bs \in {Split(r, <<"\n","\n">>)}})

----------------------------------------------------------------------------
(* Rendering (lines 85-154) *)

\* Lines 88-91: the row of one constant, or the AttributeError of a
\* constant without Value.
TableRow(constant) ==
    IF ~hasattr(constant, tValue) THEN [exc |-> "AttributeError", val |-> <<>>]
    ELSE [exc |-> "",
          val |-> <<"|"," ">> \o constant.attrs[tName] \o <<" ","|"," ">>
                  \o constant.attrs[tValue] \o <<" ","|">>
                  \o (IF constant.attrs[tDescription] # <<>>
                      THEN <<" ">> \o constant.attrs[tDescription] \o <<" ","|">>
                      ELSE <<>>)
                  \o <<"\n">>]

RECURSIVE TableRows(_)
\* Lines 87-91.
TableRows(list) ==
    Only({IF constants = <<>> THEN [exc |-> "", val |-> <<>>]
          ELSE Only({IF row.exc # "" THEN row
                     ELSE Only({IF rest.exc # "" THEN rest
                                ELSE [exc |-> "", val |-> row.val \o rest.val] :
                                rest \in {TableRows(Tail(constants))}}) :
                     row \in {TableRow(Head(constants))}}) :
          constants \in {list}})

\* generate_table(constants), lines 85-92
generate_table(constants) ==
    Only({IF rows.exc # "" THEN rows
          ELSE [exc |-> "",
                val |-> <<"|"," ","N","a","m","e"," ","|"," ","V","a","l","u","e"," ","|"," ","D","e","s","c","r","i","p","t","i","o","n"," ","|","\n","|"," ","-","-","-"," ","|"," ","-","-","-"," ","|"," ","-","-","-"," ","|","\n">>
                        \o rows.val \o <<"\n">>] :
          rows \in {TableRows(constants)}})

\* "#" * indents
Hashes(indents) == [i \in 1..indents |-> "#"]

\* describe_signed(function, indents), lines 95-100
describe_signed(function, indents) ==
    IF ~hasattr(function, tSignature) THEN [exc |-> "AttributeError", val |-> <<>>]
    ELSE [exc |-> "",
          val |-> Hashes(indents) \o <<" ">> \o function.attrs[tName] \o <<"\n">>
                  \o (IF function.attrs[tDescription] # <<>>
                      THEN <<"\n">> \o function.attrs[tDescription] \o <<"\n">>
                      ELSE <<>>)
                  \o <<"\n","BACKTICK","BACKTICK","BACKTICK","c","p","p","\n">> \o function.attrs[tSignature] \o <<"\n","BACKTICK","BACKTICK","BACKTICK","\n">>]

RECURSIVE DescribeAll(_, _)
\* The list of describe_signed(x, indents) for x in signed_list.
DescribeAll(list, indents) ==
    Only({IF signed_list = <<>> THEN [exc |-> "", val |-> <<>>]
          ELSE Only({IF d.exc # "" THEN d
                     ELSE Only({IF rest.exc # "" THEN rest
                                ELSE [exc |-> "", val |-> <<d.val>> \o rest.val] :
                                rest \in {DescribeAll(Tail(signed_list), indents)}}) :
                     d \in {describe_signed(Head(signed_list), indents)}}) :
          signed_list \in {list}})

\* signed_page(signed_list, type), lines 103-106
signed_page(signed_list, type) ==
    Only({IF ds.exc # "" THEN ds
          ELSE [exc |-> "",
                val |-> <<"#","#","#"," ">> \o type \o <<"\n","\n">> \o Join(ds.val, <<"\n">>) \o <<"\n">>] :
          ds \in {DescribeAll(signed_list, 4)}})

\* Lines 116-119: the section of one enum.
EnumSection(class_instance) ==
    IF "Values" \notin DOMAIN class_instance.kids
    THEN [exc |-> "AttributeError", val |-> <<>>]
    ELSE Only({IF t.exc # "" THEN t
               ELSE [exc |-> "",
                     val |-> <<"#","#"," ">> \o class_instance.attrs[tName] \o <<"\n","\n">>
                             \o (IF class_instance.attrs[tDescription] # <<>>
                                 THEN class_instance.attrs[tDescription] \o <<"\n">>
                                 ELSE <<>>)
                             \o t.val] :
               t \in {generate_table(class_instance.kids.Values)}})

\* Lines 124-135: the sub-list of one kind of children, empty without them.
KidsPage(class_instance, list, type) ==
    IF list \notin DOMAIN class_instance.kids
    THEN [exc |-> "AttributeError", val |-> <<>>]
    ELSE IF class_instance.kids[list] = <<>> THEN [exc |-> "", val |-> <<>>]
    ELSE signed_page(class_instance.kids[list], type)

\* Lines 121-135 with the description not followed by a blank line.
ClassSectionNoBreak(class_instance) ==
    Only({IF m.exc # "" THEN m
          ELSE IF f.exc # "" THEN f
          ELSE IF h.exc # "" THEN h
          ELSE [exc |-> "",
                val |-> <<"#","#"," ">> \o class_instance.attrs[tName] \o <<"\n","\n">>
                        \o class_instance.attrs[tDescription]
                        \o m.val \o f.val \o h.val] :
          m \in {KidsPage(class_instance, "Members", <<"M","e","m","b","e","r","s">>)},
          f \in {KidsPage(class_instance, "Functions", <<"F","u","n","c","t","i","o","n","s">>)},
          h \in {KidsPage(class_instance, "Hooks", <<"H","o","o","k","s">>)}})

\* Lines 121-135: the section of one class.
ClassSection(class_instance) ==
    Only({IF m.exc # "" THEN m
          ELSE IF f.exc # "" THEN f
          ELSE IF h.exc # "" THEN h
          ELSE [exc |-> "",
                val |-> <<"#","#"," ">> \o class_instance.attrs[tName] \o <<"\n","\n">>
                        \o (IF class_instance.attrs[tDescription] # <<>>
                            THEN class_instance.attrs[tDescription] \o <<"\n","\n">>
                            ELSE <<>>)
                        \o m.val \o f.val \o h.val] :
          m \in {KidsPage(class_instance, "Members", <<"M","e","m","b","e","r","s">>)},
          f \in {KidsPage(class_instance, "Functions", <<"F","u","n","c","t","i","o","n","s">>)},
          h \in {KidsPage(class_instance, "Hooks", <<"H","o","o","k","s">>)}})

RECURSIVE Sections(_, _)
\* Lines 113-137: the sections of the entries of class_dict, in order.
Sections(type, dict) ==
    Only({IF class_dict = <<>> \/ type \notin {tEnum, tClass}
          THEN [exc |-> "", val |-> <<>>]
          ELSE Only({IF s.exc # "" THEN s
                     ELSE Only({IF rest.exc # "" THEN rest
                                ELSE [exc |-> "", val |-> s.val \o rest.val] :
                                rest \in {Sections(type, Tail(class_dict))}}) :
                     s \in {IF type = tEnum THEN EnumSection(class_dict[1].val)
                            ELSE ClassSection(class_dict[1].val)}}) :
          class_dict \in {dict}})

\* Lines 138-150: what follows the sections.
Trailer(type, class_dict) ==
    IF type = tConstant THEN generate_table(DictValues(class_dict))
    ELSE IF type \in {tFunction, tHook}
    THEN Only({IF ds.exc # "" THEN ds
               ELSE [exc |-> "", val |-> Join(ds.val, <<"\n">>) \o <<"\n">>] :
               ds \in {DescribeAll(DictValues(class_dict), 2)}})
    ELSE [exc |-> "", val |-> <<>>]

\* Line 112.
Title(ver, category, type) ==
    <<"#"," ","V","S","c","r","i","p","t"," ">> \o category \o <<" ">> \o pretty_names[type] \o <<","," ","v","e","r","s","i","o","n"," ">>
    \o ver \o <<"\n","\n","G","e","n","e","r","a","t","e","d"," ","b","y"," ","M","a","c","o","s","a","r","o","\n","\n">>

\* Lines 112-150: return_documentation of one iteration of the outer loop.
Document(ver, type, class_dict, category) ==
    Only({IF s.exc # "" THEN s
          ELSE Only({IF t.exc # "" THEN t
                     ELSE [exc |-> "",
                           val |-> Title(ver, category, type) \o s.val \o t.val] :
                     t \in {Trailer(type, class_dict)}}) :
          s \in {Sections(type, class_dict)}})

\* str[:-1]
DropLast(str) == SubSeq(str, 1, Len(str) - 1)

RECURSIVE GenerateFrom(_, _, _, _)
\* Lines 111-152 from the i-th key of info_dict on.
GenerateFrom(ver, info_dict, category, index) ==
    Only({IF i > Len(InfoTypes) THEN [exc |-> "", val |-> <<>>]
          ELSE Only({IF d.exc # "" THEN d
                     ELSE Only({IF rest.exc # "" THEN rest
                                ELSE [exc |-> "", val |-> <<DropLast(d.val)>> \o rest.val] :
                                rest \in {GenerateFrom(ver, info_dict, category, i + 1)}}) :
                     d \in {Document(ver, InfoTypes[i], info_dict[InfoTypes[i]], category)}}) :
          i \in {index}})

\* generate_docs(info_dict, category), lines 109-154; version is the global
\* of line 42.
generate_docs(ver, information, category) ==
    Only({GenerateFrom(ver, info_dict, category, 1) : info_dict \in {information}})

----------------------------------------------------------------------------
(* Idle values of the variables a specification does not use *)

IdleModule ==
    /\ dump = <<>> /\ server_text = <<>> /\ client_text = <<>>
    /\ server_docs = <<>> /\ client_docs = <<>>
    /\ dirs = {} /\ files = <<>>
    /\ runs = 0 /\ prev_files = <<>> /\ prev_pc = ""

IdleGather ==
    /\ raw = <<>> /\ blocks = <<>> /\ bi = 0 /\ info = <<>> /\ ti = 0
    /\ return_documentation = <<>> /\ return_list = <<>>

IdleInstance ==
    /\ text_info = <<>> /\ lines = <<>> /\ li = 0
    /\ name = <<>> /\ value = <<>> /\ self = NewInstance

\* The sequences of at most n elements of S.
SeqUpTo(S, n) == UNION {[1..k -> S] : k \in 0..n}

----------------------------------------------------------------------------
(* The script (lines 39-44 and 157-181), one statement per step *)

Separator == <<"\n","D","O","C","U","M","E","N","T","A","T","I","O","N","_","C","L","I","E","N","T","\n">>

Decoration == <<"=","=","=","=","=","=","=","=","=","=","=","=","=","=","=","=","=","=","=","=","=","=","=","=","=","=","=","=","=","=","=","=","=","=","=","=","=">>

E2EDump ==
    <<"1",".","0","\n","E","n","u","m",":"," ","F","o","o","\n","D","e","s","c","r","i","p","t","i","o","n",":"," ","t","e","s","t","\n","\n","C","o","n","s","t","a","n","t",":"," ","F","o","o",".","A","\n","V","a","l","u","e",":"," ","1","\n","\n","D","O","C","U","M","E","N","T","A","T","I","O","N","_","C","L","I","E","N","T","\n">>

DumpBlocks ==
    {<<"E","n","u","m",":"," ","F","o","o","\n","D","e","s","c","r","i","p","t","i","o","n",":"," ","t","e","s","t">>,
     <<"C","o","n","s","t","a","n","t",":"," ","F","o","o",".","A","\n","V","a","l","u","e",":"," ","1">>,
     Decoration \o <<"\n","C","l","a","s","s",":"," ","C","\n">> \o Decoration,
     <<"F","u","n","c","t","i","o","n",":"," ","C",":",":","f","\n","S","i","g","n","a","t","u","r","e",":"," ","v","o","i","d"," ","C",":",":","f","(",")">>,
     <<"E","n","u","m",":"," ","B","a","r","\n","b","a","d">>}

ServerSections == {Join(bs, <<"\n","\n">>) : bs \in SeqUpTo(DumpBlocks, MaxDumpBlocks)}

ClientSections == {<<>>, <<"E","n","u","m",":"," ","F","o","o">>, <<"H","o","o","k",":"," ","h","\n","S","i","g","n","a","t","u","r","e",":"," ","v","o","i","d"," ","h","(",")">>, <<"b","a","d">>}

Dumps ==
    {<<"1",".","0","\n">> \o s \o Separator \o c : s \in ServerSections, c \in ClientSections}
    \cup {E2EDump, <<"1",".","0">>, <<"1",".","0","\n","E","n","u","m",":"," ","F","o","o">>}

\* os.mkdir(d)
mkdir(ds, d) ==
    IF d \in ds THEN [exc |-> "FileExistsError", val |-> ds]
    ELSE [exc |-> "", val |-> ds \cup {d}]

\* Lines 165-166 and 174-175 without the test.
EnsureDirNoTest(ds, d) == mkdir(ds, d)

\* Lines 165-166 and 174-175: if not os.path.exists(d): os.mkdir(d)
EnsureDir(ds, d) ==
    IF d \notin ds THEN mkdir(ds, d) ELSE [exc |-> "", val |-> ds]

\* write(path, content), lines 157-159: the file is opened with "w"
write(fs, path, content) ==
    [p \in (DOMAIN fs) \cup {path} |-> IF p = path THEN content ELSE fs[p]]

\* Lines 168-172 and 177-181.
WriteStatements ==
    <<[pc |-> "L168", path |-> "server/enums.md", server |-> TRUE, doc |-> 1, next |-> "L169"],
      [pc |-> "L169", path |-> "server/constants.md", server |-> TRUE, doc |-> 2, next |-> "L170"],
      [pc |-> "L170", path |-> "server/classes.md", server |-> TRUE, doc |-> 3, next |-> "L171"],
      [pc |-> "L171", path |-> "server/functions.md", server |-> TRUE, doc |-> 4, next |-> "L172"],
      [pc |-> "L172", path |-> "server/hooks.md", server |-> TRUE, doc |-> 5, next |-> "L174"],
      [pc |-> "L177", path |-> "client/enums.md", server |-> FALSE, doc |-> 1, next |-> "L178"],
      [pc |-> "L178", path |-> "client/constants.md", server |-> FALSE, doc |-> 2, next |-> "L179"],
      [pc |-> "L179", path |-> "client/classes.md", server |-> FALSE, doc |-> 3, next |-> "L180"],
      [pc |-> "L180", path |-> "client/functions.md", server |-> FALSE, doc |-> 4, next |-> "L181"],
      [pc |-> "L181", path |-> "client/hooks.md", server |-> FALSE, doc |-> 5, next |-> "done"]>>

Init ==
    /\ pc = "L39"
    /\ exc = ""
    /\ dump \in Dumps
    /\ version = <<>> /\ server_text = <<>> /\ client_text = <<>>
    /\ server_docs = <<>> /\ client_docs = <<>>
    /\ dirs \in SUBSET {"server", "client"}
    /\ files = <<>>
    /\ runs = 1 /\ prev_files = <<>> /\ prev_pc = ""
    /\ IdleGather /\ IdleInstance

\* Lines 39-44: read the file, cut the version line, cut the two sections.
ReadDump ==
    /\ pc = "L39"
    /\ \E head \in {Split1(dump, <<"\n">>)} :
          /\ Len(head) = 2
          /\ \E sections \in {Split(head[2], Separator)} :
                /\ Len(sections) = 2
                /\ version' = head[1]
                /\ server_text' = sections[1]
                /\ client_text' = sections[2]
    /\ pc' = "L162"
    /\ UNCHANGED <<exc, dump, server_docs, client_docs, dirs, files, runs,
                   prev_files, prev_pc, gatherVars, instanceVars>>

\* Lines 42 and 44: unpacking a split that has not exactly two parts raises.
ReadDumpValueError ==
    /\ pc = "L39"
    /\ \E head \in {Split1(dump, <<"\n">>)} :
          IF Len(head) # 2 THEN TRUE ELSE Len(Split(head[2], Separator)) # 2
    /\ pc' = "raised"
    /\ exc' = "ValueError"
    /\ UNCHANGED <<moduleVars, gatherVars, instanceVars>>

\* The documents of one section: generate_docs(gather_info(text), category)
SectionDocs(ver, text, category) ==
    Only({IF g.exc # "" THEN [exc |-> g.exc, val |-> <<>>]
          ELSE generate_docs(ver, g.val, category) :
          g \in {gather_info(text)}})

\* Line 162.
ServerDocs ==
    /\ pc = "L162"
    /\ \E r \in {SectionDocs(version, server_text, <<"S","e","r","v","e","r">>)} :
          /\ r.exc = ""
          /\ server_docs' = r.val
    /\ pc' = "L163"
    /\ UNCHANGED <<exc, dump, version, server_text, client_text, client_docs, dirs,
                   files, runs, prev_files, prev_pc, gatherVars, instanceVars>>

\* Line 163.
ClientDocs ==
    /\ pc = "L163"
    /\ \E r \in {SectionDocs(version, client_text, <<"C","l","i","e","n","t">>)} :
          /\ r.exc = ""
          /\ client_docs' = r.val
    /\ pc' = "L165"
    /\ UNCHANGED <<exc, dump, version, server_text, client_text, server_docs, dirs,
                   files, runs, prev_files, prev_pc, gatherVars, instanceVars>>

\* Lines 162-163: an exception of the parser, the classifier or the renderer.
DocsRaise ==
    /\ pc \in {"L162", "L163"}
    /\ \E r \in {IF pc = "L162" THEN SectionDocs(version, server_text, <<"S","e","r","v","e","r">>)
                 ELSE SectionDocs(version, client_text, <<"C","l","i","e","n","t">>)} :
          /\ r.exc # ""
          /\ exc' = r.exc
    /\ pc' = "raised"
    /\ UNCHANGED <<moduleVars, gatherVars, instanceVars>>

\* Lines 165-166 and 174-175.
MakeDir ==
    /\ pc \in {"L165", "L174"}
    /\ \E r \in {EnsureDir(dirs, IF pc = "L165" THEN "server" ELSE "client")} :
          /\ dirs' = r.val
          /\ exc' = r.exc
          /\ pc' = IF r.exc # "" THEN "raised"
                   ELSE IF pc = "L165" THEN "L168" ELSE "L177"
    /\ UNCHANGED <<dump, version, server_text, client_text, server_docs, client_docs,
                   files, runs, prev_files, prev_pc, gatherVars, instanceVars>>

\* Lines 168-172 and 177-181: one call of write.
Write ==
    /\ \E i \in DOMAIN WriteStatements :
          LET w == WriteStatements[i]
          IN  /\ pc = w.pc
              /\ files' = write(files, w.path,
                                IF w.server THEN server_docs[w.doc] ELSE client_docs[w.doc])
              /\ pc' = w.next
    /\ UNCHANGED <<exc, dump, version, server_text, client_text, server_docs,
                   client_docs, dirs, runs, prev_files, prev_pc, gatherVars,
                   instanceVars>>

\* The generator is started again on the same input file and file system.
Rerun ==
    /\ pc \in {"done", "raised"}
    /\ runs < MaxRuns
    /\ runs' = runs + 1
    /\ prev_files' = files
    /\ prev_pc' = pc
    /\ pc' = "L39"
    /\ exc' = ""
    /\ version' = <<>> /\ server_text' = <<>> /\ client_text' = <<>>
    /\ server_docs' = <<>> /\ client_docs' = <<>>
    /\ UNCHANGED <<dump, dirs, files, gatherVars, instanceVars>>

Next ==
    \/ ReadDump
    \/ ReadDumpValueError
    \/ ServerDocs
    \/ ClientDocs
    \/ DocsRaise
    \/ MakeDir
    \/ Write
    \/ Rerun

Spec == Init /\ [][Next]_vars

----------------------------------------------------------------------------
(* Properties of the script *)

Range(f) == {f[i] : i \in DOMAIN f}

\* The k-th section of a dump (1 server, 2 client), empty for a dump that
\* has no two sections.
SectionOf(d, k) ==
    Only({IF Len(head) # 2 THEN <<>>
          ELSE Only({IF Len(sections) # 2 THEN <<>> ELSE sections[k] :
                     sections \in {Split(head[2], Separator)}}) :
          head \in {Split1(d, <<"\n">>)}})

\* A block of the section has, once its decoration is stripped, a line
\* without a colon.
HasColonlessLine(section) ==
    \E b \in Range(Split(section, <<"\n","\n">>)) :
        \E l \in Range(SplitLines(StripSeparators(b))) : ":" \notin Range(l)

ContextPaths(k) ==
    {WriteStatements[i].path : i \in {j \in DOMAIN WriteStatements :
                                         WriteStatements[j].server = (k = 1)}}

\* C1: for the dump "1.0", an Enum Foo with Description test, a Constant
\* Foo.A with Value 1, the DOCUMENTATION_CLIENT line and nothing after it,
\* the run completes and server/enums.md holds the heading "## Foo", the
\* description line "test" and the row "| Foo.A | 1 |".
C1_EndToEndEmptyClient ==
    (dump = E2EDump /\ runs = 1 /\ pc \in {"done", "raised"}) =>
        /\ pc = "done"
        /\ "server/enums.md" \in DOMAIN files
        /\ Find(files["server/enums.md"], <<"#","#"," ","F","o","o","\n">>, 1) > 0
        /\ Find(files["server/enums.md"], <<"\n","t","e","s","t","\n">>, 1) > 0
        /\ Find(files["server/enums.md"], <<"|"," ","F","o","o",".","A"," ","|"," ","1"," ","|">>, 1) > 0

\* C6: when a record block of a context's section has a line without a
\* colon, the run never gets past parsing and rendering, it never ends
\* normally, and none of that context's five files exists; and in the first
\* run any file exists only once both lists of documents are complete.
C6_MalformedWritesNothing ==
    /\ \A k \in {1, 2} :
          HasColonlessLine(SectionOf(dump, k)) =>
              /\ pc \in {"L39", "L162", "L163", "raised"}
              /\ DOMAIN files \cap ContextPaths(k) = {}
    /\ (runs = 1 /\ DOMAIN files # {}) =>
          Len(server_docs) = Len(InfoTypes) /\ Len(client_docs) = Len(InfoTypes)

\* The run has failed on a colon-less line of the client section, after the
\* server section was parsed and rendered.
C6_Witness ==
    /\ pc = "raised" /\ exc = "IndexError"
    /\ HasColonlessLine(SectionOf(dump, 2))
    /\ ~HasColonlessLine(SectionOf(dump, 1))
    /\ Len(server_docs) = Len(InfoTypes)
    /\ files = <<>>

\* C8: a second run on the unchanged input, started in the file system the
\* first complete run left, does not fail and leaves every one of the ten
\* files with the content the first run gave it.
C8_SecondRunIdentical ==
    (runs >= 2 /\ prev_pc = "done") => (pc # "raised" /\ files = prev_files)

\* The second run has ended, after a first run that wrote the ten files.
C8_Witness ==
    /\ runs = 2 /\ prev_pc = "done" /\ pc = "done"
    /\ Cardinality(DOMAIN files) = Len(WriteStatements)
    /\ dirs = {"server", "client"}

----------------------------------------------------------------------------
(* gather_info and generate_docs on one section, one iteration per step *)

GatherLib ==
    {<<"E","n","u","m",":"," ","E","\n","D","e","s","c","r","i","p","t","i","o","n",":"," ","d">>,
     <<"C","o","n","s","t","a","n","t",":"," ","E",".","A","\n","V","a","l","u","e",":"," ","1">>,
     <<"C","o","n","s","t","a","n","t",":"," ","K","\n","V","a","l","u","e",":"," ","2","\n","D","e","s","c","r","i","p","t","i","o","n",":"," ","k">>,
     Decoration \o <<"\n","C","l","a","s","s",":"," ","C","\n","D","e","s","c","r","i","p","t","i","o","n",":"," ","c","\n">> \o Decoration,
     <<"C","l","a","s","s",":"," ","B">>,
     <<"F","u","n","c","t","i","o","n",":"," ","C",":",":","f","\n","S","i","g","n","a","t","u","r","e",":"," ","f","(",")">>,
     <<"M","e","m","b","e","r",":"," ","C",".","m","\n","S","i","g","n","a","t","u","r","e",":"," ","m">>,
     <<"H","o","o","k",":"," ","C"," ","-",">"," ","h","\n","S","i","g","n","a","t","u","r","e",":"," ","h","(",")">>,
     <<"F","u","n","c","t","i","o","n",":"," ","g","\n","D","e","s","c","r","i","p","t","i","o","n",":"," ","d","\n","S","i","g","n","a","t","u","r","e",":"," ","g","(",")">>,
     <<"H","o","o","k",":"," ","D"," ","-",">"," ","h">>,
     <<"M","e","m","b","e","r",":"," ","D",".","m","\n","S","i","g","n","a","t","u","r","e",":"," ","m">>}

RawSections == {Join(bs, <<"\n","\n">>) : bs \in SeqUpTo(GatherLib, MaxBlocks)}

InitGather ==
    /\ pc = "gather_info"
    /\ exc = ""
    /\ raw \in RawSections
    /\ blocks = Split(raw, <<"\n","\n">>)
    /\ bi = 0
    /\ info = EmptyInfo
    /\ ti = 0
    /\ return_documentation = <<>>
    /\ return_list = <<>>
    /\ version = <<"7",".","1">>
    /\ IdleModule /\ IdleInstance

\* Lines 55-80: one iteration of the loop.
GatherLoop ==
    /\ pc = "gather_info"
    /\ bi < Len(blocks)
    /\ \E r \in {GatherBlock(info, blocks[bi + 1], bi + 1)} :
          /\ r.exc = ""
          /\ info' = r.val
    /\ bi' = bi + 1
    /\ UNCHANGED <<pc, exc, raw, blocks, ti, return_documentation, return_list,
                   moduleVars, instanceVars>>

\* Lines 57-80: the iteration raises.
GatherRaise ==
    /\ pc = "gather_info"
    /\ bi < Len(blocks)
    /\ \E r \in {GatherBlock(info, blocks[bi + 1], bi + 1)} :
          /\ r.exc # ""
          /\ exc' = r.exc
    /\ bi' = bi + 1
    /\ pc' = "raised"
    /\ UNCHANGED <<raw, blocks, info, ti, return_documentation, return_list,
                   moduleVars, instanceVars>>

\* Line 82.
GatherReturn ==
    /\ pc = "gather_info"
    /\ bi = Len(blocks)
    /\ pc' = "generate_docs"
    /\ UNCHANGED <<exc, gatherVars, moduleVars, instanceVars>>

\* Lines 111-152: one iteration of the outer loop.
DocLoop ==
    /\ pc = "generate_docs"
    /\ ti < Len(InfoTypes)
    /\ \E d \in {Document(version, InfoTypes[ti + 1], info[InfoTypes[ti + 1]], <<"S","e","r","v","e","r">>)} :
          /\ d.exc = ""
          /\ return_documentation' = d.val
          /\ return_list' = Append(return_list, DropLast(d.val))
    /\ ti' = ti + 1
    /\ UNCHANGED <<pc, exc, raw, blocks, bi, info, moduleVars, instanceVars>>

\* Lines 113-148: the iteration raises.
DocRaise ==
    /\ pc = "generate_docs"
    /\ ti < Len(InfoTypes)
    /\ \E d \in {Document(version, InfoTypes[ti + 1], info[InfoTypes[ti + 1]], <<"S","e","r","v","e","r">>)} :
          /\ d.exc # ""
          /\ exc' = d.exc
    /\ ti' = ti + 1
    /\ pc' = "raised"
    /\ UNCHANGED <<raw, blocks, bi, info, return_documentation, return_list,
                   moduleVars, instanceVars>>

\* Line 154.
DocsReturn ==
    /\ pc = "generate_docs"
    /\ ti = Len(InfoTypes)
    /\ pc' = "returned"
    /\ UNCHANGED <<exc, gatherVars, moduleVars, instanceVars>>

NextGather ==
    \/ GatherLoop
    \/ GatherRaise
    \/ GatherReturn
    \/ DocLoop
    \/ DocRaise
    \/ DocsReturn

SpecGather == InitGather /\ [][NextGather]_vars

----------------------------------------------------------------------------
(* Properties of gather_info and generate_docs *)

\* The object of the j-th block of the section.
Parsed(j) == BlockInstance(blocks[j], j).val

\* The j-th block is a block of the type with the name.
IsBlock(j, type, n) == Parsed(j).attrs[tType] = type /\ Parsed(j).attrs[tName] = n

\* The object of the i-th block is in the Values of the Enum registered
\* under n.
InValues(i, n) ==
    /\ n \in DictKeys(info[tEnum])
    /\ \E v \in Range(DictGet(info[tEnum], n).kids.Values) : v.id = i

\* The indices of the Constant blocks.
ConstantBlocks == {i \in DOMAIN blocks : Parsed(i).attrs[tType] = tConstant}

EnumEarlier(i) ==
    \E j \in 1..(i - 1) : IsBlock(j, tEnum, Split(Parsed(i).attrs[tName], <<".">>)[1])

EnumLater(i) ==
    \E j \in (i + 1)..Len(blocks) : IsBlock(j, tEnum, Split(Parsed(i).attrs[tName], <<".">>)[1])

C3_ConstantInOnePlace ==
    pc = "generate_docs" =>
        \A e \in Range(info[tEnum]) : \A v \in Range(e.val.kids.Values) :
            \A c \in Range(info[tConstant]) : c.val.id # v.id

\* The block gather_info is about to process has no classified parent.
Unparented(inst) ==
    /\ inst.attrs[tType] \in {tEnum, tConstant, tClass, tFunction, tMember, tHook}
    /\ inst.attrs[tType] = tConstant =>
          Split(inst.attrs[tName], <<".">>)[1] \notin DictKeys(info[tEnum])
    /\ inst.attrs[tType] = tFunction =>
          Split(inst.attrs[tName], <<":",":">>)[1] \notin DictKeys(info[tClass])
    /\ inst.attrs[tType] = tMember =>
          Split(inst.attrs[tName], <<".">>)[1] \notin DictKeys(info[tClass])
    /\ inst.attrs[tType] = tHook =>
          Split(inst.attrs[tName], <<" ","-",">"," ">>)[1] \notin DictKeys(info[tClass])

\* C4: a record of any of the six types that matches no classified parent
\* is filed under its type and name, and the loop goes on.
C4_UnparentedFiledStandalone ==
    [][(pc = "gather_info" /\ bi < Len(blocks)) =>
          \A r \in {BlockInstance(blocks[bi + 1], bi + 1)} :
              (r.exc = "" /\ hasattr(r.val, tType) /\ Unparented(r.val)) =>
                  /\ pc' = "gather_info"
                  /\ r.val.attrs[tType] \in DOMAIN info'
                  /\ r.val.attrs[tName] \in DictKeys(info'[r.val.attrs[tType]])
                  /\ DictGet(info'[r.val.attrs[tType]], r.val.attrs[tName]) = r.val]_vars

\* The kinds of children of a class: type, list, separator of the name.
ChildKinds ==
    {[type |-> tFunction, list |-> "Functions", sep |-> <<":",":">>],
     [type |-> tMember, list |-> "Members", sep |-> <<".">>],
     [type |-> tHook, list |-> "Hooks", sep |-> <<" ","-",">"," ">>]}

\* info2 is info1 with x appended to the list of the class named n and
\* nothing else changed.
OnlyAppended(info1, info2, n, list, x) ==
    /\ DOMAIN info2 = DOMAIN info1
    /\ \A t \in DOMAIN info1 : t # tClass => info2[t] = info1[t]
    /\ Len(info2[tClass]) = Len(info1[tClass])
    /\ \A i \in DOMAIN info1[tClass] :
          IF info1[tClass][i].key # n THEN info2[tClass][i] = info1[tClass][i]
          ELSE /\ info2[tClass][i].key = n
               /\ info2[tClass][i].val.attrs = info1[tClass][i].val.attrs
               /\ info2[tClass][i].val.kids[list] =
                     Append(info1[tClass][i].val.kids[list], x)
               /\ \A l \in DOMAIN info1[tClass][i].val.kids :
                     l # list => info2[tClass][i].val.kids[l] = info1[tClass][i].val.kids[l]

\* C5: a Function C::f, a Member C.m or a Hook C -> h processed while a
\* Class C is in the Class mapping is appended to that class's Functions,
\* Members or Hooks, and nothing else of the mappings changes.
C5_ChildNestedUnderClass ==
    [][(pc = "gather_info" /\ bi < Len(blocks)) =>
          \A r \in {BlockInstance(blocks[bi + 1], bi + 1)} :
              (r.exc = "" /\ hasattr(r.val, tType)) =>
                  \A k \in ChildKinds :
                      (/\ r.val.attrs[tType] = k.type
                       /\ Find(r.val.attrs[tName], k.sep, 1) > 1
                       /\ Split(r.val.attrs[tName], k.sep)[1] \in DictKeys(info[tClass]))
                      => /\ pc' = "gather_info"
                         /\ OnlyAppended(info, info', Split(r.val.attrs[tName], k.sep)[1],
                                         k.list, r.val)]_vars

\* gather_info has returned with a class that has a nested Function and a
\* nested Hook, and no top-level Function or Hook.
C5_Witness ==
    /\ pc = "generate_docs"
    /\ info[tFunction] = <<>> /\ info[tHook] = <<>>
    /\ \E c \in Range(info[tClass]) :
          c.val.kids.Functions # <<>> /\ c.val.kids.Hooks # <<>>

\* C10: each document generate_docs assembles ends with a newline, and the
\* document it returns is the assembled one without that newline.
C10_TrimsOneNewline ==
    (pc \in {"generate_docs", "returned"} /\ ti >= 1) =>
        /\ return_documentation # <<>>
        /\ return_documentation[Len(return_documentation)] = "\n"
        /\ return_list[ti] \o <<"\n">> = return_documentation

\* All five documents are returned for mappings with an enum without
\* values and a class with a description and without children.
C10_Witness ==
    /\ pc = "returned"
    /\ Len(return_list) = Len(InfoTypes)
    /\ \E e \in Range(info[tEnum]) : e.val.kids.Values = <<>>
    /\ \E c \in Range(info[tClass]) :
          /\ c.val.attrs[tDescription] # <<>>
          /\ c.val.kids.Functions = <<>> /\ c.val.kids.Members = <<>>
          /\ c.val.kids.Hooks = <<>>
    /\ info[tConstant] = <<>>

----------------------------------------------------------------------------
(* Instance.__init__, one line of the block per step *)

Alphabet == {"a", ":", " "}

GenLines == SeqUpTo(Alphabet, MaxLineLen)

LibLines == {<<"E","n","u","m",":"," ","F","o","o">>, <<"C","l","a","s","s",":"," ","C">>, <<"N","a","m","e",":"," ","B","a","r">>, <<"T","y","p","e",":"," ","C","l","a","s","s">>,
             <<"D","e","s","c","r","i","p","t","i","o","n",":"," ","d">>, <<"S","i","g","n","a","t","u","r","e",":"," ","v","o","i","d"," ","C",":",":","f","(",")">>, <<"V","a","l","u","e",":"," ","1">>}

TextInfos == {Join(ls, <<"\n">>) : ls \in SeqUpTo(GenLines \cup LibLines, MaxLines)}

InitInstance ==
    /\ pc = "Instance"
    /\ exc = ""
    /\ text_info \in TextInfos
    /\ lines = SplitLines(text_info)
    /\ li = 0
    /\ name = <<>> /\ value = <<>>
    /\ self = NewInstance
    /\ version = <<>>
    /\ IdleModule /\ IdleGather

\* Lines 14-26: one iteration of the loop.
InstanceLine ==
    /\ pc = "Instance"
    /\ li < Len(lines)
    /\ \E m \in {findall(lines[li + 1])} :
          /\ m # <<>>
          /\ li' = li + 1
          /\ name' = m[1].name
          /\ value' = m[1].value
          /\ self' = InstanceSetLine(self, m[1].name, m[1].value)
    /\ UNCHANGED <<pc, exc, text_info, lines, moduleVars, gatherVars>>

\* Line 15: findall returns no match and [0] raises.
InstanceIndexError ==
    /\ pc = "Instance"
    /\ li < Len(lines)
    /\ findall(lines[li + 1]) = <<>>
    /\ pc' = "raised"
    /\ exc' = "IndexError"
    /\ li' = li + 1
    /\ UNCHANGED <<text_info, lines, name, value, self, moduleVars, gatherVars>>

\* Lines 27-28: the loop is over.
InstanceReturn ==
    /\ pc = "Instance"
    /\ li = Len(lines)
    /\ self' = InstanceDefaults(self)
    /\ pc' = "returned"
    /\ UNCHANGED <<exc, text_info, lines, li, name, value, moduleVars, gatherVars>>

NextInstance == InstanceLine \/ InstanceIndexError \/ InstanceReturn

SpecInstance == InitInstance /\ [][NextInstance]_vars
----------------------------------------------------------------------------
(* Properties of Instance.__init__ *)

\* C7: the name and the value taken from a line are the text before its
\* first colon and the text after that colon and the whitespace behind it.
C7_SplitAtFirstColon ==
    (pc = "Instance" /\ li >= 1) =>
        /\ name = SubSeq(lines[li], 1, Find(lines[li], <<":">>, 1) - 1)
        /\ value = LStrip(SubSeq(lines[li], Find(lines[li], <<":">>, 1) + 1, Len(lines[li])))

\* C9: the object of a block has the key of the first line as Type and the
\* value of the first line as Name, whatever the later lines are.
C9_TypeAndNameFromFirstLine ==
    (pc = "returned" /\ lines # <<>>) =>
        /\ self.attrs[tType] = findall(lines[1])[1].name
        /\ self.attrs[tName] = findall(lines[1])[1].value

====
